---- MODULE Spec2Model ----
(***************************************************************************)
(* MemoBot (src/main.py): a reminder bot.  A text message is parsed into   *)
(* an event time; a morning reminder (and, when still in the future, an    *)
(* evening-before reminder) is written to the SQLite table `reminders` and *)
(* one asyncio task per reminder sleeps until the reminder's time, sends   *)
(* the message and deletes the row.  On startup main() re-creates a task   *)
(* for every row whose time is still in the future.                        *)
(* /list shows the asking chat its rows.                                   *)
(*                                                                         *)
(* The model is a state machine whose steps are the atomic sections of the *)
(* asyncio program: the code between two awaits runs without interleaving. *)
(* The clock is taken to move forward only.  SQLite calls and Telegram     *)
(* calls may fail; the process may die at any point and be started again.  *)
(***************************************************************************)
EXTENDS Integers, FiniteSets, Sequences, Bags, TLC

(* ------------------------------ bounds --------------------------------- *)
MaxDay == 2          \* calendar days 1..MaxDay
MaxCrashes == 1      \* process terminations
MaxRows == 2         \* rows ever inserted

(* ---------------------- datetime (minute precision) -------------------- *)
HoursPerDay == 24
MinutesPerHour == 60
MorningHour == 7
EveningHour == 20

\* datetime(day, hour, minute) as minutes since day 0, 00:00
DateTime(d, h, m) == (d * HoursPerDay + h) * MinutesPerHour + m
DateOf(t) == t \div (HoursPerDay * MinutesPerHour)
HourOf(t) == (t \div MinutesPerHour) % HoursPerDay
MinuteOf(t) == t % MinutesPerHour

\* datetime.replace(hour=h, minute=m): same date, new time of day
Replace(t, h, m) == DateTime(DateOf(t), h, m)

\* isoformat cut to the hour: the minutes are not written
IsoFormatHour(t) == <<DateOf(t), HourOf(t), 0>>
\* datetime.isoformat(): the text "D T HH:MM", held as its three fields
IsoFormat(t) == <<DateOf(t), HourOf(t), MinuteOf(t)>>
\* datetime.fromisoformat(): the fields read back into a datetime
FromIsoFormat(s) == DateTime(s[1], s[2], s[3])

(* ------------------------------ inputs --------------------------------- *)
Chats == {1, 2}
Texts == {"a"}
\* chat ids are only ever compared for equality, so a call comes from one of
\* the chats that have rows so far or from one new chat
CallerChats(rows) ==
    {c \in Chats : c <= Cardinality({r.chat_id : r \in rows}) + 1}
\* the times of day the parser returns: 00:00, 00:30 and 07:00
ParserTimes == {<<0, 0>>, <<0, 30>>, <<MorningHour, 0>>}
Instants == {DateTime(d, hm[1], hm[2]) : d \in 1..MaxDay, hm \in ParserTimes}
\* the times of day the clock is read at: 00:00, 07:00 and 20:00
ClockTimes == {<<0, 0>>, <<MorningHour, 0>>, <<EveningHour, 0>>}
ClockInstants == {DateTime(d, hm[1], hm[2]) : d \in 1..MaxDay, hm \in ClockTimes}

\* dateparser.parse(...) results other than None: the datetime, and whether the
\* text named a time of day.  A text without a time of day parses to midnight.
ParserOutputs ==
    {p \in [dt : Instants, explicit : BOOLEAN] :
        (~p.explicit) => (HourOf(p.dt) = 0 /\ MinuteOf(p.dt) = 0)}

VARIABLES
    now,        \* datetime.now(), the host clock
    running,    \* whether the bot process is alive
    store,      \* rows of table reminders
    nextId,     \* next AUTOINCREMENT id
    tasks,      \* live schedule_reminder tasks of the running process
    nextTid,    \* names the tasks (model identity of a coroutine object)
    handlers,   \* add_reminder calls suspended in `await message.answer(response)`
    crashes,    \* number of process terminations
    everRows,   \* history: every row ever inserted
    attempts,   \* history: the bag of bot.send_message calls and their outcomes
    reply,      \* the last message.answer of a handler
    exit,       \* how the last process ended, "none" while one is alive
    deleteErrors \* history: the tasks whose DELETE raised

vars == <<now, running, store, nextId, tasks, nextTid, handlers, crashes,
          everRows, attempts, reply, exit, deleteErrors>>

(* --------------------------- the table --------------------------------- *)
Row(id, c, x, d) ==
    [id |-> id, chat_id |-> c, reminder_text |-> x, reminder_date |-> IsoFormat(d)]

\* INSERT INTO reminders (chat_id, reminder_text, reminder_date) VALUES (?, ?, ?)
add_reminder_to_db(st, id, c, x, d) == st \cup {Row(id, c, x, d)}

\* remove_reminder_from_db keyed on chat and text alone, the date left out
remove_reminder_from_db_text(st, c, x, d) ==
    {r \in st : ~(r.chat_id = c /\ r.reminder_text = x)}

\* remove_reminder_from_db without the chat_id condition
remove_reminder_from_db_anychat(st, c, x, d) ==
    {r \in st : ~(r.reminder_text = x /\ r.reminder_date = IsoFormat(d))}

\* remove_reminder_from_db with LIMIT 1: only the oldest matching row goes
remove_reminder_from_db_first(st, c, x, d) ==
    {r \in st :
        ~(/\ r.chat_id = c /\ r.reminder_text = x
          /\ r.reminder_date = IsoFormat(d)
          /\ \A q \in st : (q.chat_id = c /\ q.reminder_text = x
                              /\ q.reminder_date = IsoFormat(d)) => q.id >= r.id)}

\* DELETE FROM reminders WHERE chat_id=? AND reminder_text=? AND reminder_date=?
remove_reminder_from_db(st, c, x, d) ==
    {r \in st : ~(r.chat_id = c /\ r.reminder_text = x
                    /\ r.reminder_date = IsoFormat(d))}

\* get_pending_reminders with the date filter left out: every row is pending
get_pending_reminders_all(st, t) == st

\* get_pending_reminders with >= for >: a row due right now is pending too
get_pending_reminders_ge(st, t) ==
    {r \in st : FromIsoFormat(r.reminder_date) >= t}

\* the rows whose reminder_date is after the clock
get_pending_reminders(st, t) ==
    {r \in st : FromIsoFormat(r.reminder_date) > t}

(* --------------------------- add_reminder ------------------------------ *)
\* lines 172-173: midnight is taken to mean "no time given" and becomes 07:00
DefaultTime(parsed_date) ==
    IF HourOf(parsed_date) = 0 /\ MinuteOf(parsed_date) = 0
    THEN Replace(parsed_date, MorningHour, 0)
    ELSE parsed_date

\* line 175
IsPast(parsed_date, t) == parsed_date < t

\* lines 183-184: the day before, at 20:00
EveningDt(parsed_date) == DateTime(DateOf(parsed_date) - 1, EveningHour, 0)

\* EveningWanted with >= for >: an evening reminder due right now is kept
EveningWantedGe(evening_dt, t) == evening_dt >= t

\* lines 189 and 202
EveningWanted(evening_dt, t) == evening_dt > t

\* a schedule_reminder coroutine: its arguments, where it stands ("sleep":
\* before send_message has delivered, "sent": delivered, DELETE not yet run),
\* and for the record the row it was created for and by whom
Task(tid, rid, c, x, d, src) ==
    [tid |-> tid, rid |-> rid, chat_id |-> c, reminder_text |-> x,
     reminder_date |-> d, pc |-> "sleep", src |-> src]

Init ==
    /\ now = DateTime(1, 0, 0)
    /\ running = TRUE
    /\ store = {}
    /\ nextId = 1
    /\ tasks = {}
    /\ nextTid = 1
    /\ handlers = {}
    /\ crashes = 0
    /\ everRows = {}
    /\ attempts = EmptyBag
    /\ reply = "none"
    /\ exit = "none"
    /\ deleteErrors = {}

\* the host clock moves forward
Tick(t) ==
    /\ t > now
    /\ now' = t
    /\ UNCHANGED <<running, store, nextId, tasks, nextTid, handlers, crashes,
                   everRows, attempts, reply, exit, deleteErrors>>

\* lines 165-168: dateparser returns None
AddReminderParseFailure(c, x) ==
    /\ running
    /\ reply' = "unparsed"
    /\ UNCHANGED <<now, running, store, nextId, tasks, nextTid, handlers,
                   crashes, everRows, attempts, exit, deleteErrors>>

\* AddReminderPastDate with the INSERT moved before the date check
AddReminderPastDateInserts(c, x, p) ==
    /\ running
    /\ nextId <= MaxRows
    /\ IsPast(DefaultTime(p.dt), now)
    /\ store' = add_reminder_to_db(store, nextId, c, x, DefaultTime(p.dt))
    /\ nextId' = nextId + 1
    /\ everRows' = everRows \cup {Row(nextId, c, x, DefaultTime(p.dt))}
    /\ reply' = "past"
    /\ UNCHANGED <<now, running, tasks, nextTid, handlers, crashes, attempts,
                   exit, deleteErrors>>

\* lines 170-177: the (default-adjusted) time is before the clock
AddReminderPastDate(c, x, p) ==
    /\ running
    /\ IsPast(DefaultTime(p.dt), now)
    /\ reply' = "past"
    /\ UNCHANGED <<now, running, store, nextId, tasks, nextTid, handlers,
                   crashes, everRows, attempts, exit, deleteErrors>>

\* lines 170-196: both INSERTs succeed; the handler then awaits the reply
AddReminderStored(c, x, p) ==
    LET morning_dt == DefaultTime(p.dt)
        evening_dt == EveningDt(morning_dt)
        two == EveningWanted(evening_dt, now)
        st1 == add_reminder_to_db(store, nextId, c, x, morning_dt)
    IN  /\ running
        /\ nextId + (IF two THEN 1 ELSE 0) <= MaxRows
        /\ ~IsPast(morning_dt, now)
        /\ store' = IF two
                    THEN add_reminder_to_db(st1, nextId + 1, c, x, evening_dt)
                    ELSE st1
        /\ nextId' = IF two THEN nextId + 2 ELSE nextId + 1
        /\ everRows' = everRows \cup {Row(nextId, c, x, morning_dt)}
                       \cup (IF two THEN {Row(nextId + 1, c, x, evening_dt)}
                             ELSE {})
        /\ handlers' = handlers \cup
               {[chat_id |-> c, text |-> x, morning_dt |-> morning_dt,
                 evening_dt |-> evening_dt, now0 |-> now,
                 parsed |-> p, mid |-> nextId,
                 eid |-> IF two THEN nextId + 1 ELSE 0]}
        /\ UNCHANGED <<now, running, tasks, nextTid, crashes, attempts, reply,
                       exit, deleteErrors>>

\* lines 187, 205-207: the first INSERT raises; the except branch replies
AddReminderFirstInsertFails(c, x, p) ==
    LET morning_dt == DefaultTime(p.dt)
    IN  /\ running
        /\ ~IsPast(morning_dt, now)
        /\ reply' = "error"
        /\ UNCHANGED <<now, running, store, nextId, tasks, nextTid, handlers,
                       crashes, everRows, attempts, exit, deleteErrors>>

\* lines 187-190, 205-207: the second INSERT raises after the first committed
AddReminderSecondInsertFails(c, x, p) ==
    LET morning_dt == DefaultTime(p.dt)
        evening_dt == EveningDt(morning_dt)
    IN  /\ running
        /\ nextId <= MaxRows
        /\ ~IsPast(morning_dt, now)
        /\ EveningWanted(evening_dt, now)
        /\ store' = add_reminder_to_db(store, nextId, c, x, morning_dt)
        /\ nextId' = nextId + 1
        /\ everRows' = everRows \cup {Row(nextId, c, x, morning_dt)}
        /\ reply' = "error"
        /\ UNCHANGED <<now, running, tasks, nextTid, handlers, crashes,
                       attempts, exit, deleteErrors>>

\* ArmedBy without the test of line 202: the evening task is always created
ArmedByBoth(h) ==
    {Task(nextTid, h.mid, h.chat_id, h.text, h.morning_dt, "submit"),
     Task(nextTid + 1, h.eid, h.chat_id, h.text, h.evening_dt, "submit")}

\* the tasks lines 198-204 create, from the handler's own now
ArmedBy(h) ==
    {Task(nextTid, h.mid, h.chat_id, h.text, h.morning_dt, "submit")}
    \cup (IF EveningWanted(h.evening_dt, h.now0)
          THEN {Task(nextTid + 1, h.eid, h.chat_id, h.text, h.evening_dt, "submit")}
          ELSE {})

\* lines 196-204: the reply is sent, then the tasks are created
AnswerOk(h) ==
    /\ running
    /\ h \in handlers
    /\ handlers' = handlers \ {h}
    /\ tasks' = tasks \cup ArmedBy(h)
    /\ nextTid' = nextTid + Cardinality(ArmedBy(h))
    /\ reply' = "scheduled"
    /\ UNCHANGED <<now, running, store, nextId, crashes, everRows, attempts,
                   exit, deleteErrors>>

\* lines 196, 205-207: the reply raises; the except branch creates no task
AnswerFails(h) ==
    /\ running
    /\ h \in handlers
    /\ handlers' = handlers \ {h}
    /\ reply' = "error"
    /\ UNCHANGED <<now, running, store, nextId, tasks, nextTid, crashes,
                   everRows, attempts, exit, deleteErrors>>

(* ---------------------------- list_handler ----------------------------- *)
\* datetime.strftime('%d.%m.%Y %H:%M'), held as its fields
StrfTime(t) == <<DateOf(t), HourOf(t), MinuteOf(t)>>

\* list_handler with the WHERE clause left out
list_handler_all(st, c) == st

\* SELECT reminder_text, reminder_date FROM reminders WHERE chat_id=?
list_handler(st, c) == {r \in st : r.chat_id = c}

\* lines 149-153: one line of the answer per row returned, as a bag of lines
ResponseLines(rows) ==
    LET line(r) == <<r.reminder_text,
                      StrfTime(FromIsoFormat(r.reminder_date))>>
    IN  [l \in {line(r) : r \in rows} |->
            Cardinality({r \in rows : line(r) = l})]

\* lines 139-153: /list from chat c
ListHandler(c) ==
    /\ running
    /\ reply' = IF list_handler(store, c) = {} THEN "empty" ELSE "list"
    /\ UNCHANGED <<now, running, store, nextId, tasks, nextTid, handlers,
                   crashes, everRows, attempts, exit, deleteErrors>>

(* ------------------------- schedule_reminder --------------------------- *)
\* DelayOver without the sleep: the task goes on at once
DelayOverAtOnce(t) == TRUE

\* lines 97-99: the delay is over, or was not positive to begin with
DelayOver(t) == t.reminder_date <= now

Attempt(t, ok) ==
    [tid |-> t.tid, rid |-> t.rid, chat_id |-> t.chat_id,
     reminder_text |-> t.reminder_text, reminder_date |-> t.reminder_date,
     src |-> t.src, ok |-> ok]

\* lines 97-100: the sleep is over and send_message delivers the message to
\* the chat; the task has yet to be resumed from its await
DeliverOk(t) ==
    /\ running
    /\ t \in tasks
    /\ t.pc = "sleep"
    /\ DelayOver(t)
    /\ tasks' = (tasks \ {t}) \cup {[t EXCEPT !.pc = "sent"]}
    /\ attempts' = attempts (+) SetToBag({Attempt(t, TRUE)})
    /\ UNCHANGED <<now, running, store, nextId, nextTid, handlers, crashes,
                   everRows, reply, exit, deleteErrors>>

\* DeliverFails with a retry: after a failed send_message the task waits on
DeliverFailsRetries(t) ==
    /\ running
    /\ t \in tasks
    /\ t.pc = "sleep"
    /\ DelayOver(t)
    /\ CopiesIn(Attempt(t, FALSE), attempts) < 2
    /\ attempts' = attempts (+) SetToBag({Attempt(t, FALSE)})
    /\ UNCHANGED <<now, running, store, nextId, tasks, nextTid, handlers,
                   crashes, everRows, reply, exit, deleteErrors>>

\* lines 97-100: the sleep is over and send_message raises; the task ends
\* with the exception
DeliverFails(t) ==
    /\ running
    /\ t \in tasks
    /\ t.pc = "sleep"
    /\ DelayOver(t)
    /\ tasks' = tasks \ {t}
    /\ attempts' = attempts (+) SetToBag({Attempt(t, FALSE)})
    /\ UNCHANGED <<now, running, store, nextId, nextTid, handlers, crashes,
                   everRows, reply, exit, deleteErrors>>

\* Remove without the DELETE: the task ends after delivering
RemoveSkipped(t) ==
    /\ running
    /\ t \in tasks
    /\ t.pc = "sent"
    /\ tasks' = tasks \ {t}
    /\ UNCHANGED <<now, running, store, nextId, nextTid, handlers, crashes,
                   everRows, attempts, reply, exit, deleteErrors>>

\* line 101: the task resumes and deletes the matching rows
Remove(t) ==
    /\ running
    /\ t \in tasks
    /\ t.pc = "sent"
    /\ tasks' = tasks \ {t}
    /\ store' = remove_reminder_from_db(store, t.chat_id, t.reminder_text,
                                        t.reminder_date)
    /\ UNCHANGED <<now, running, nextId, nextTid, handlers, crashes, everRows,
                   attempts, reply, exit, deleteErrors>>

\* line 101: the DELETE raises; the task ends with the exception
RemoveFails(t) ==
    /\ running
    /\ t \in tasks
    /\ t.pc = "sent"
    /\ tasks' = tasks \ {t}
    /\ deleteErrors' = deleteErrors \cup {t.tid}
    /\ UNCHANGED <<now, running, store, nextId, nextTid, handlers, crashes,
                   everRows, attempts, reply, exit>>

(* ------------------------------- main ---------------------------------- *)
\* the process dies: every task and every suspended handler is gone
Crash ==
    /\ running
    /\ crashes < MaxCrashes
    /\ running' = FALSE
    /\ crashes' = crashes + 1
    /\ tasks' = {}
    /\ handlers' = {}
    /\ exit' = "killed"
    /\ UNCHANGED <<now, store, nextId, nextTid, everRows, attempts, reply,
                   deleteErrors>>

\* lines 113-120: one task per pending row, in the order the SELECT returns them
Recovered(st, t) ==
    LET pending == get_pending_reminders(st, t)
    IN  {Task(nextTid + Cardinality({q \in pending : q.id < r.id}), r.id,
              r.chat_id, r.reminder_text, FromIsoFormat(r.reminder_date),
              "recovery") :
            r \in pending}

\* lines 106-120, 210: the process starts
Restart ==
    /\ ~running
    /\ running' = TRUE
    /\ tasks' = Recovered(store, now)
    /\ nextTid' = nextTid + Cardinality(Recovered(store, now))
    /\ exit' = "none"
    /\ UNCHANGED <<now, store, nextId, handlers, crashes, everRows, attempts,
                   reply, deleteErrors>>

\* lines 107-113, 216: init_db or get_pending_reminders raises; nothing in
\* main catches it, asyncio.run re-raises and the started process exits
RestartFails ==
    /\ ~running
    /\ exit' = "error"
    /\ UNCHANGED <<now, running, store, nextId, tasks, nextTid, handlers,
                   crashes, everRows, attempts, reply, deleteErrors>>

Next ==
    \/ \E t \in ClockInstants : Tick(t)
    \/ \E c \in CallerChats(everRows), x \in Texts : AddReminderParseFailure(c, x)
    \/ \E c \in CallerChats(everRows), x \in Texts, p \in ParserOutputs :
           AddReminderPastDate(c, x, p)
    \/ \E c \in CallerChats(everRows), x \in Texts, p \in ParserOutputs :
           AddReminderStored(c, x, p)
    \/ \E c \in CallerChats(everRows), x \in Texts, p \in ParserOutputs :
           AddReminderFirstInsertFails(c, x, p)
    \/ \E c \in CallerChats(everRows), x \in Texts, p \in ParserOutputs :
           AddReminderSecondInsertFails(c, x, p)
    \/ \E c \in CallerChats(everRows) : ListHandler(c)
    \/ \E h \in handlers : AnswerOk(h)
    \/ \E h \in handlers : AnswerFails(h)
    \/ \E t \in tasks : DeliverOk(t)
    \/ \E t \in tasks : DeliverFails(t)
    \/ \E t \in tasks : Remove(t)
    \/ \E t \in tasks : RemoveFails(t)
    \/ Crash
    \/ Restart
    \/ RestartFails

Spec == Init /\ [][Next]_vars

\* the host clock advances, and the event loop runs a task whose sleep is over
\* and resumes a task whose send_message has returned
FairSpec ==
    /\ Spec
    /\ WF_vars(\E t \in ClockInstants : Tick(t))
    /\ WF_vars(\E t \in tasks : DeliverOk(t) \/ DeliverFails(t))
    /\ WF_vars(\E t \in tasks : Remove(t) \/ RemoveFails(t))

(* ------------------------ vocabulary of the claims --------------------- *)
RowDate(r) == FromIsoFormat(r.reminder_date)
\* the task is a wait for the row's (chat_id, reminder_text, reminder_date)
WaitsFor(t, r) ==
    /\ t.chat_id = r.chat_id
    /\ t.reminder_text = r.reminder_text
    /\ t.reminder_date = RowDate(r)
\* the send_message calls made so far, and how many were made for a row
Sends == BagToSet(attempts)
SendCount(id, ok) ==
    BagCardinality([a \in {b \in Sends : b.rid = id /\ b.ok \in ok} |-> attempts[a]])
\* the row's own reminder has been delivered to the chat
Fired(r) == \E a \in Sends : a.rid = r.id /\ a.ok
\* the tasks a step creates
NewTasks == {t \in tasks' : \A u \in tasks : u.tid # t.tid}
\* the steps of the program, as seen in two successive states
RestartStep == ~running /\ running'
ArmStep(h) == h \in handlers /\ h \notin handlers' /\ reply' = "scheduled" /\ running'
DeliveryFailedStep ==
    \E t \in tasks : attempts' = attempts (+) SetToBag({Attempt(t, FALSE)})
\* midnight of a datetime's calendar day
Midnight(t) == t - HourOf(t) * MinutesPerHour - MinuteOf(t)
\* 20:00 on the calendar day before, computed from the calendar alone
EveningBefore(t) == Midnight(t) - (HoursPerDay - EveningHour) * MinutesPerHour
\* 07:00 on the same calendar day
MorningOf(t) == Midnight(t) + MorningHour * MinutesPerHour

(* C1: a row is in the table if and only if its reminder has not fired:    *)
(* no state shows a delivered reminder whose row is still stored, nor an   *)
(* undelivered reminder whose row is gone.                                 *)
C1_StoredIffNotFired ==
    \A r \in everRows : (r \in store) <=> ~Fired(r)

(* C2: while the process runs, every stored row has exactly one pending    *)
(* wait for its (chat_id, reminder_text, reminder_date).                   *)
C2_OneWaitPerRecord ==
    running =>
        \A r \in store : Cardinality({t \in tasks : WaitsFor(t, r)}) = 1

C3_AtMostOnce ==
    /\ \A r \in everRows :
           SendCount(r.id, {TRUE}) <= 1
    /\ \A t \in tasks : t.pc = "sent" => t.reminder_date <= now

C3_RecoveryArms ==
    RestartStep =>
        \A r \in store :
            RowDate(r) > now =>
                /\ ~Fired(r)
                /\ Cardinality({t \in tasks' : t.rid = r.id /\ WaitsFor(t, r)
                                               /\ t.pc = "sleep"}) = 1
                /\ Cardinality({t \in tasks' : WaitsFor(t, r)}) =
                       Cardinality({q \in store' : q.chat_id = r.chat_id
                                       /\ q.reminder_text = r.reminder_text
                                       /\ q.reminder_date = r.reminder_date})

(* C3: across crashes and restarts no pending reminder is lost or          *)
(* duplicated: every row is delivered at most once in total and never      *)
(* before its time; a restart gives every row whose time is still ahead    *)
(* exactly one sleeping wait of its own; and such a wait leads to a        *)
(* send_message call for its row unless the process dies again first.      *)
C3_RestartKeepsPending ==
    /\ []C3_AtMostOnce
    /\ [][C3_RecoveryArms]_vars
    /\ \A id \in 1..MaxRows :
           []((running /\ \E t \in tasks : t.rid = id /\ t.pc = "sleep"
                                            /\ t.src = "recovery")
              => <>((\E a \in Sends : a.rid = id) \/ ~running))

C3_Witness ==
    /\ \E a \in Sends : a.ok /\ a.src = "recovery"
    /\ \E r \in store : Fired(r)

(* C4: startup recovery arms one wait for exactly the rows whose time is   *)
(* strictly after the clock; rows at or before the clock are neither       *)
(* delivered nor removed, and recovery leaves the table as it was.         *)
C4_RecoveryArmsFuture ==
    [][RestartStep =>
          /\ store' = store
          /\ attempts' = attempts
          /\ \A r \in store :
                 Cardinality({t \in tasks' : t.rid = r.id /\ WaitsFor(t, r)
                                             /\ t.pc = "sleep"}) =
                     (IF RowDate(r) > now THEN 1 ELSE 0)
          /\ \A t \in tasks' : \E r \in store : t.rid = r.id /\ RowDate(r) > now
          /\ Cardinality(tasks') =
                 Cardinality({r \in store : RowDate(r) > now})]_vars

C4_Witness ==
    /\ running
    /\ handlers = {}
    /\ \E t \in tasks : t.src = "recovery" /\ t.pc = "sleep" /\ t.reminder_date > now
    /\ \E r \in store : RowDate(r) <= now /\ ~Fired(r)
                        /\ \A t \in tasks : t.rid # r.id
                        /\ \A a \in Sends : a.rid # r.id

(* C5: a submission is rejected whenever its (default-adjusted) time is    *)
(* not strictly after the clock, so every row inserted has a time strictly *)
(* after the clock read when it was created.                               *)
C5_DueAfterCreation ==
    \A h \in handlers :
        /\ h.morning_dt > h.now0
        /\ h.eid # 0 => h.evening_dt > h.now0

(* C6: when send_message fails the wait ends: the table is left as it is,  *)
(* the wait makes no second send_message call, and neither this process    *)
(* nor a later one holds a wait for that row again.                        *)
C6_DeliveryFailureIsFinal ==
    [][/\ DeliveryFailedStep => store' = store
       /\ \A a \in Sends' :
              ~a.ok =>
                  /\ \A t \in tasks' : t.rid # a.rid
                  /\ SendCount(a.rid, BOOLEAN)' = 1]_vars

C6_Witness ==
    /\ running
    /\ \E a \in Sends : ~a.ok /\ \E r \in store : r.id = a.rid
    /\ \E t \in tasks : t.src = "recovery"

C8_RejectionChangesNothing ==
    [][(reply' \in {"unparsed", "past"} /\ reply' # reply) =>
          /\ store' = store
          /\ tasks' = tasks
          /\ handlers' = handlers
          /\ nextId' = nextId]_vars

C8_Witness ==
    /\ reply = "past"
    /\ store # {}
    /\ tasks # {}

(* C9: an accepted submission stores the (default-adjusted) event time,    *)
(* and 20:00 of the day before exactly when that is strictly after the     *)
(* clock; a completed submission arms waits for the same one or two times. *)
C9_DeriverTimes ==
    [][/\ \A h \in handlers' :
              LET inserted == {r \in everRows' : r.id \in {h.mid, h.eid}}
                  expected == {h.morning_dt} \cup
                              (IF EveningBefore(h.morning_dt) > h.now0
                               THEN {EveningBefore(h.morning_dt)} ELSE {})
              IN  /\ h.morning_dt = DefaultTime(h.parsed.dt)
                  /\ {RowDate(r) : r \in inserted} = expected
                  /\ Cardinality(inserted) = Cardinality(expected)
                  /\ Cardinality(inserted) \in {1, 2}
                  /\ \A r \in inserted :
                         r.chat_id = h.chat_id /\ r.reminder_text = h.text
       /\ \A h \in handlers :
              ArmStep(h) =>
                  LET expected == {h.morning_dt} \cup
                                  (IF EveningBefore(h.morning_dt) > h.now0
                                   THEN {EveningBefore(h.morning_dt)} ELSE {})
                  IN  /\ {t.reminder_date : t \in NewTasks} = expected
                      /\ Cardinality(NewTasks) = Cardinality(expected)
                      /\ \A t \in NewTasks :
                             /\ t.chat_id = h.chat_id
                             /\ t.reminder_text = h.text
                             /\ t.pc = "sleep"]_vars

C9_Witness ==
    /\ reply = "scheduled"
    /\ \E t1 \in tasks, t2 \in tasks :
           /\ t1.src = "submit" /\ t2.src = "submit"
           /\ t2.rid = t1.rid + 1
           /\ t2.chat_id = t1.chat_id
           /\ t2.reminder_date = EveningBefore(t1.reminder_date)

(* C10: the time of day is replaced by 07:00 exactly when the text named   *)
(* no time of day; a parsed time with an explicit time of day is used      *)
(* unchanged.                                                              *)
C10_DefaultOnlyWithoutTime ==
    \A h \in handlers :
        h.morning_dt = (IF h.parsed.explicit THEN h.parsed.dt
                        ELSE MorningOf(h.parsed.dt))

(* --------------------------- claims C11 to C20 ------------------------- *)
\* the rows of a table with the given chat, text and time
Matching(st, c, x, d) ==
    {r \in st : r.chat_id = c /\ r.reminder_text = x /\ RowDate(r) = d}
\* a task that had delivered ends, and its DELETE did not raise
DeleteStep(t) ==
    /\ t \in tasks /\ t.pc = "sent" /\ t \notin tasks'
    /\ running' /\ deleteErrors' = deleteErrors

C11_DeleteTwice ==
    \A c \in Chats, x \in Texts, d \in Instants :
        LET s0 == add_reminder_to_db(store, nextId, c, x, d)
            s1 == remove_reminder_from_db(s0, c, x, d)
            s2 == remove_reminder_from_db(s1, c, x, d)
        IN  /\ Matching(s0, c, x, d) # {}
            /\ Matching(s1, c, x, d) = {}
            /\ s2 = s1

C11_DeleteStepIdempotent ==
    \A t \in tasks :
        DeleteStep(t) =>
            /\ Matching(store', t.chat_id, t.reminder_text, t.reminder_date) = {}
            /\ Matching(store, t.chat_id, t.reminder_text, t.reminder_date) = {}
                   => store' = store

(* C11: remove_reminder_from_db is idempotent: after an insert of (chat,    *)
(* text, time) a first delete with these arguments leaves no matching row,  *)
(* and a second one leaves the table as the first left it; a delete that    *)
(* matches nothing is an ordinary step that changes nothing.                *)
C11_DeleteIdempotent ==
    /\ []C11_DeleteTwice
    /\ [][C11_DeleteStepIdempotent]_vars

\* two tasks for the same (chat, text, time) have both delivered and both run
\* their DELETE: the second one found nothing to delete
C11_Witness ==
    /\ running /\ crashes = 0 /\ deleteErrors = {}
    /\ \E a \in Sends, b \in Sends :
           /\ a.ok /\ b.ok /\ a.tid # b.tid
           /\ a.chat_id = b.chat_id /\ a.reminder_text = b.reminder_text
           /\ a.reminder_date = b.reminder_date
           /\ \A t \in tasks : t.tid \notin {a.tid, b.tid}
           /\ Matching(store, a.chat_id, a.reminder_text, a.reminder_date) = {}

C12_InsertThenList ==
    \A c \in Chats, x \in Texts, d \in Instants :
        d > now =>
            LET s1 == add_reminder_to_db(store, nextId, c, x, d)
                found == {r \in get_pending_reminders(s1, now) :
                             /\ r.id = nextId
                             /\ r.chat_id = c
                             /\ r.reminder_text = x
                             /\ FromIsoFormat(r.reminder_date) = d}
            IN  /\ Cardinality(found) = 1
                /\ store \subseteq s1
                /\ s1 \ store = found

C12_InsertStep ==
    everRows' # everRows =>
        /\ store \subseteq store'
        /\ store' \ store = everRows' \ everRows
        /\ \A r \in everRows' \ everRows :
               RowDate(r) > now => r \in get_pending_reminders(store', now)
        /\ \A h \in handlers' \ handlers :
               \E r \in store' \ store :
                   /\ r.id = h.mid /\ r.chat_id = h.chat_id
                   /\ r.reminder_text = h.text /\ RowDate(r) = h.morning_dt

(* C12: for every (chat, text, time) with time > now, the row written by    *)
(* add_reminder_to_db is returned by get_pending_reminders read at once,     *)
(* with the same chat, text and time (the ISO text reads back to the same    *)
(* datetime); an insert leaves every row stored before as it was.            *)
C12_InsertRoundTrip ==
    /\ []C12_InsertThenList
    /\ [][C12_InsertStep]_vars

\* a row with a time of 00:30 has just been inserted next to an older row and
\* is pending
C12_Witness ==
    \E h \in handlers, r \in store, q \in store :
        /\ h.now0 = now /\ h.mid = r.id /\ q.id < r.id
        /\ MinuteOf(RowDate(r)) # 0
        /\ r \in get_pending_reminders(store, now)

(* C13: the DELETE is keyed on chat, text and time together: when a task    *)
(* deletes after delivering, the rows that go are exactly those equal to    *)
(* its own on all three; a row of the same chat and text with another time  *)
(* (the other reminder of an evening/morning pair) stays, and every other   *)
(* task stays armed.                                                        *)
C13_DeleteKeepsPair ==
    [][store' # store /\ ~(store \subseteq store') =>
          \E t \in tasks :
              /\ DeleteStep(t)
              /\ store \ store' =
                     Matching(store, t.chat_id, t.reminder_text, t.reminder_date)
              /\ store' \subseteq store
              /\ tasks' = tasks \ {t}
              /\ \A r \in store :
                     (r.chat_id = t.chat_id /\ r.reminder_text = t.reminder_text
                      /\ RowDate(r) # t.reminder_date) => r \in store']_vars

\* the evening reminder of a pair has fired and its row is gone; the morning
\* row of the same submission is stored and its task sleeps
C13_Witness ==
    \E r \in store, q \in everRows \ store, t \in tasks :
        /\ q.id = r.id + 1 /\ q.chat_id = r.chat_id
        /\ q.reminder_text = r.reminder_text
        /\ RowDate(q) = EveningBefore(RowDate(r))
        /\ Fired(q)
        /\ t.rid = r.id /\ t.pc = "sleep" /\ t.src = "submit" /\ WaitsFor(t, r)

\* a step in which a storage call or a Telegram call raises
C14_ErrorStep ==
    \/ \E a \in Sends' : ~a.ok /\ CopiesIn(a, attempts') > CopiesIn(a, attempts)
    \/ deleteErrors' # deleteErrors
    \/ reply' = "error" /\ reply # "error"
    \/ exit' = "error" /\ exit # "error"

(* C14: a storage error (on insert, delete or list, the list of startup     *)
(* recovery included) or a delivery error never ends the process, and takes *)
(* away no task other than the one it happened in.                          *)
C14_ErrorsContained ==
    /\ [](exit # "error")
    /\ [][C14_ErrorStep =>
             /\ running' = running
             /\ \A t \in tasks \ tasks' :
                    \/ t.tid \in deleteErrors'
                    \/ \E a \in Sends' : a.tid = t.tid /\ ~a.ok]_vars

C15_ListResult ==
    \A c \in Chats :
        LET rows == list_handler(store, c)
            lines == ResponseLines(rows)
        IN  /\ \A r \in store : (r \in rows) <=> (r.chat_id = c)
            /\ BagCardinality(lines) =
                   Cardinality({r \in store : r.chat_id = c})
            /\ \A r \in store :
                   r.chat_id = c =>
                       BagIn(<<r.reminder_text,
                               <<DateOf(RowDate(r)), HourOf(RowDate(r)),
                                 MinuteOf(RowDate(r))>> >>, lines)

C15_ListStep ==
    (reply' \in {"list", "empty"} /\ reply' # reply) =>
        /\ store' = store /\ everRows' = everRows /\ tasks' = tasks
        /\ handlers' = handlers
        /\ reply' = "empty" => \E c \in Chats : \A r \in store : r.chat_id # c
        /\ reply' = "list" => store # {}

(* C15: /list answers with one line for every stored row of the asking     *)
(* chat, whether its time is past or still ahead, with no row of another    *)
(* chat, and changes neither the table nor the tasks.                       *)
C15_ListByChat ==
    /\ []C15_ListResult
    /\ [][C15_ListStep]_vars

\* /list has just answered while the table holds rows of two chats, one of
\* them past due and undelivered
C15_Witness ==
    /\ reply = "list"
    /\ \E r \in store, q \in store :
           /\ r.chat_id # q.chat_id
           /\ RowDate(r) < now /\ ~Fired(r)
           /\ RowDate(q) > now

C16_NotBeforeDue ==
    /\ \A a \in Sends : a.reminder_date <= now
    /\ \A t \in tasks :
           t.pc = "sent" => \E a \in Sends : a.tid = t.tid /\ a.ok

C16_DeleteAfterDeliver ==
    \A r \in store \ store' :
        \E t \in tasks, a \in Sends :
            /\ DeleteStep(t)
            /\ a.tid = t.tid /\ a.ok
            /\ a.chat_id = r.chat_id /\ a.reminder_text = r.reminder_text
            /\ a.reminder_date = RowDate(r)
            /\ a.reminder_date <= now

(* C16: for every task the order is expiry, then send_message, then DELETE: *)
(* send_message is never called before the task's reminder_date, and a row  *)
(* leaves the table only in the DELETE of a task that has delivered a       *)
(* message for the row's own chat, text and time.                           *)
C16_ExpiryDeliverDelete ==
    /\ []C16_NotBeforeDue
    /\ [][C16_DeleteAfterDeliver]_vars

\* a recovered task has delivered at its time and deleted its row, while
\* another row is still stored
C16_Witness ==
    /\ running /\ deleteErrors = {}
    /\ \E q \in everRows \ store, a \in Sends :
           /\ a.rid = q.id /\ a.ok /\ a.src = "recovery"
           /\ \A t \in tasks : t.tid # a.tid
    /\ store # {}

\* the names tasks can get: one task per row from add_reminder, and one per
\* row from each restart
TaskIds == 1..(MaxRows * (MaxCrashes + 1))
\* the task is armed: created, and send_message not yet called
Armed(tid) == running /\ \E t \in tasks : t.tid = tid /\ t.pc = "sleep"
\* the task made exactly one send_message call, it delivered, the task has
\* ended and the table holds no row with the task's chat, text and time
FiredAndDeleted(tid) ==
    /\ \A t \in tasks : t.tid # tid
    /\ \E a \in Sends :
           /\ a.tid = tid /\ a.ok /\ CopiesIn(a, attempts) = 1
           /\ \A b \in Sends : b.tid = tid => b = a
           /\ Matching(store, a.chat_id, a.reminder_text, a.reminder_date) = {}
DeliveryFailed(tid) == \E a \in Sends : a.tid = tid /\ ~a.ok

Settled(r) ==
    /\ \A t \in tasks : t.rid # r.id
    /\ \A h \in handlers : r.id \notin {h.mid, h.eid}

(* C18: two rows with the same chat, text and time: once the process runs,  *)
(* no call has failed and nothing is pending for either row, each row's     *)
(* reminder has been delivered exactly once and the table holds no row for  *)
(* that chat, text and time, whatever the order of the two tasks' steps and *)
(* wherever a crash fell.                                                   *)
C18_DuplicatesEachOnce ==
    \A r1 \in everRows, r2 \in everRows :
        (/\ r1.id < r2.id
         /\ r1.chat_id = r2.chat_id /\ r1.reminder_text = r2.reminder_text
         /\ r1.reminder_date = r2.reminder_date
         /\ running /\ RowDate(r1) <= now
         /\ Settled(r1) /\ Settled(r2)
         /\ \A a \in Sends : a.ok
         /\ deleteErrors = {})
        => /\ SendCount(r1.id, {TRUE}) = 1
           /\ SendCount(r2.id, {TRUE}) = 1
           /\ Matching(store, r1.chat_id, r1.reminder_text, RowDate(r1)) = {}

(* C19: while the process runs, every task that has not yet called          *)
(* send_message has a row in the table with its chat, text and time: no     *)
(* task outlives its row.                                                   *)
C19_WaitHasRecord ==
    running =>
        \A t \in tasks :
            t.pc = "sleep" => \E r \in store : WaitsFor(t, r)

\* the chat a step acts for: the chat of the rows it inserts or deletes and
\* of the message it sends
C20_ChatsTouched ==
    {r.chat_id : r \in (store \ store') \cup (store' \ store)}

C20_Isolated ==
    /\ Cardinality(C20_ChatsTouched) <= 1
    /\ \A r \in store \ store' :
           \E t \in tasks : DeleteStep(t) /\ t.chat_id = r.chat_id
    /\ \A r \in store' \ store :
           r \in everRows' \ everRows
    /\ \A h \in handlers' \ handlers :
           \A r \in store' \ store : r.chat_id = h.chat_id

C20_DeliveredToOwnChat ==
    \A a \in Sends :
        \E r \in everRows : r.id = a.rid /\ r.chat_id = a.chat_id
                                /\ r.reminder_text = a.reminder_text
                                /\ RowDate(r) = a.reminder_date

(* C20: chats are isolated: a step that inserts or deletes rows touches the *)
(* rows of one chat only, the chat of the submitting message or of the      *)
(* firing task, and every send_message call goes to the chat_id stored in   *)
(* the row the task was created for.                                        *)
C20_ChatsIsolated ==
    /\ []C20_DeliveredToOwnChat
    /\ [][C20_Isolated]_vars

\* one chat's reminder has fired and its row is deleted, while another chat's
\* row with the same text and time is still stored
C20_Witness ==
    \E q \in everRows \ store, r \in store :
        /\ q.chat_id # r.chat_id
        /\ q.reminder_text = r.reminder_text
        /\ q.reminder_date = r.reminder_date
        /\ Fired(q) /\ ~Fired(r)
        /\ \A t \in tasks : t.rid # q.id

====
